---- MODULE Spec2Model ----
(***************************************************************************)
(* Galaxy / world map of XenopetsO: toroidal coordinate math, the          *)
(* drag-driven ship position of the toroidal GalaxyMap, the circular       *)
(* navigation boundary of the bounded GalaxyMap and the drag-offset        *)
(* WorldScreen.                                                            *)
(*                                                                         *)
(* Numbers.  World coordinates are kept on the integer grid.  Screen       *)
(* coordinates are kept in sub-pixels of 1/SubPx pixel, SubPx being        *)
(* 2 * viewportSize, so that screenCenter = width / 2 and                  *)
(* scale = min(width, height) / viewportSize are both exact integers:      *)
(* the model's scale is the number of sub-pixels per world unit.           *)
(***************************************************************************)
EXTENDS Integers, Sequences, FiniteSets, TLC

VARIABLES
    variant,        \* which prototype of the screen is mounted
    pureFn,         \* coordinate-math call last made
    pureArgs,       \* its arguments
    pureDone,       \* the call has returned
    pureNum,        \* its numeric result
    purePositions,  \* result of getWrappedPositions
    mounted,        \* the component is mounted
    storage,        \* the localStorage entry of the position key
    shipX,          \* ship position, x (motion value / position state)
    shipY,          \* ship position, y
    shipPositionRef,    \* part_002: the ref the load effect writes
    currentShipPosition,    \* the memoised viewer position given to the projection
    isDragging,     \* a drag gesture is in progress
    containerDimensions,    \* measured container size, in pixels
    dragDims,       \* part_002: containerDimensions captured by handleDrag's closure
    velocity,       \* part_002: velocityRef, world units per second
    loops,          \* part_002: running applyMomentum loops
    pendingSaves,   \* part_002: armed 100 ms save timers
    lastOp,         \* the handler that ran last
    events,         \* number of user / environment events so far
    mapPosition,    \* WorldScreen: offset of the dragged map
    dragStart,      \* WorldScreen: pointer position minus offset at gesture start
    selectedPoint,  \* WorldScreen: point whose detail view is open
    clickTarget,    \* the point the last click was on
    callbacks,      \* the point ids onPointClick was invoked with, in order
    mapX,           \* bounded GalaxyMap: map position, x
    mapY,           \* bounded GalaxyMap: map position, y
    playerStorage,  \* bounded GalaxyMap: the entry of xenopets-player-position
    shipPosition,   \* bounded GalaxyMap: the position the initializer parsed
    nearbyPoint,    \* GalaxyMap: closest point within the threshold
    crashed,        \* bounded GalaxyMap: mounting threw
    anim,           \* bounded GalaxyMap: the tween started by resetShipPosition
    shipRotation    \* first GalaxyMap: the angle, in degrees, the ship turns to

pureVars == <<pureFn, pureArgs, pureDone, pureNum, purePositions>>

shipVars == <<mounted, storage, shipX, shipY, shipPositionRef, currentShipPosition, isDragging, containerDimensions, dragDims, velocity, loops, pendingSaves, lastOp, events>>

torusOnly == <<shipX, shipY, shipPositionRef, currentShipPosition, dragDims, velocity, loops, pendingSaves>>

offsetVars == <<mapPosition, dragStart, selectedPoint>>

clickVars == <<clickTarget, callbacks>>

boundedVars == <<mapX, mapY, playerStorage, shipPosition, nearbyPoint, crashed, anim>>

boundedRest == <<mapX, mapY, playerStorage, shipPosition, crashed, anim>>

earlyVars == <<shipRotation>>

vars == <<variant, pureVars, shipVars, offsetVars, clickVars, boundedVars, earlyVars>>

----------------------------------------------------------------------------
(* Configuration of the toroidal world *)

WORLD_CONFIG == [width |-> 5000, height |-> 5000, viewportSize |-> 1000]

SubPx == 2 * WORLD_CONFIG.viewportSize

Abs(n) == IF n < 0 THEN -n ELSE n

Min2(a, b) == IF a <= b THEN a ELSE b

Max2(a, b) == IF a >= b THEN a ELSE b

----------------------------------------------------------------------------
(* wrap: the two while loops of the source, one after the other *)

RECURSIVE wrapUp_once(_, _, _)
wrapUp_once(result, min, range) ==
    IF result < min THEN result + range ELSE result

RECURSIVE wrapUp(_, _, _)
wrapUp(result, min, range) ==
    IF result < min THEN wrapUp(result + range, min, range) ELSE result

RECURSIVE wrapDown_gt(_, _, _)
wrapDown_gt(result, max, range) ==
    IF result > max THEN wrapDown_gt(result - range, max, range) ELSE result

RECURSIVE wrapDown(_, _, _)
wrapDown(result, max, range) ==
    IF result >= max THEN wrapDown(result - range, max, range) ELSE result

wrap(value, min, max) ==
    LET range == max - min
    IN  IF range <= 0 THEN min
        ELSE wrapDown(wrapUp(value, min, range), max, range)

(* getWrappedDelta: halfSize = size / 2 is compared without rounding *)

getWrappedDelta_swapped(a, b, size) ==
    LET delta == a - b
    IN  IF 2 * delta > size THEN delta - size
        ELSE IF 2 * delta < -size THEN delta + size
        ELSE delta

getWrappedDelta_foldDownOnly(a, b, size) ==
    LET delta == b - a
    IN  IF 2 * delta > size THEN delta - size ELSE delta

getWrappedDelta_foldUpOnly(a, b, size) ==
    LET delta == b - a
    IN  IF 2 * delta < -size THEN delta + size ELSE delta

getWrappedDelta(a, b, size) ==
    LET delta == b - a
    IN  IF 2 * delta > size THEN delta - size
        ELSE IF 2 * delta < -size THEN delta + size
        ELSE delta

(* toroidalDistance, squared: the code returns Math.sqrt of this sum, and   *)
(* the square root is increasing, so distances compare as their squares do  *)

toroidalDistanceSq_direct(a, b, worldWidth, worldHeight) ==
    LET dx == b.x - a.x
        dy == b.y - a.y
    IN  dx * dx + dy * dy

toroidalDistanceSq(a, b, worldWidth, worldHeight) ==
    LET dx == getWrappedDelta(a.x, b.x, worldWidth)
        dy == getWrappedDelta(a.y, b.y, worldHeight)
    IN  dx * dx + dy * dy

(* worldToScreen; screenCenter and the result in sub-pixels, scale in      *)
(* sub-pixels per world unit                                                *)

worldToScreen(worldPos, playerPos, center, sc) ==
    LET dx == getWrappedDelta(playerPos.x, worldPos.x, WORLD_CONFIG.width)
        dy == getWrappedDelta(playerPos.y, worldPos.y, WORLD_CONFIG.height)
    IN  [x |-> center.x + dx * sc, y |-> center.y + dy * sc]

WrapMargin == 100

Tagged(pos, id) == [x |-> pos.x, y |-> pos.y, id |-> id]

getWrappedPositions_inclusive(worldPos, playerPos, center, sc, screenWidth, screenHeight) ==
    LET margin == WrapMargin * SubPx
        sw == screenWidth * SubPx
        sh == screenHeight * SubPx
        W == WORLD_CONFIG.width
        H == WORLD_CONFIG.height
        copy(ox, oy) == worldToScreen([x |-> worldPos.x + ox, y |-> worldPos.y + oy],
                                      playerPos, center, sc)
        mainPos == worldToScreen(worldPos, playerPos, center, sc)
        p0 == <<Tagged(mainPos, "main")>>
        p1 == IF mainPos.x <= margin /\ copy(W, 0).x <= sw + margin
              THEN Append(p0, Tagged(copy(W, 0), "right")) ELSE p0
        p2 == IF mainPos.x >= sw - margin /\ copy(-W, 0).x >= -margin
              THEN Append(p1, Tagged(copy(-W, 0), "left")) ELSE p1
        p3 == IF mainPos.y <= margin /\ copy(0, H).y <= sh + margin
              THEN Append(p2, Tagged(copy(0, H), "bottom")) ELSE p2
        p4 == IF mainPos.y >= sh - margin /\ copy(0, -H).y >= -margin
              THEN Append(p3, Tagged(copy(0, -H), "top")) ELSE p3
        p5 == IF mainPos.x <= margin /\ mainPos.y <= margin
              THEN Append(p4, Tagged(copy(W, H), "corner-br")) ELSE p4
        p6 == IF mainPos.x >= sw - margin /\ mainPos.y <= margin
              THEN Append(p5, Tagged(copy(-W, H), "corner-bl")) ELSE p5
        p7 == IF mainPos.x <= margin /\ mainPos.y >= sh - margin
              THEN Append(p6, Tagged(copy(W, -H), "corner-tr")) ELSE p6
        p8 == IF mainPos.x >= sw - margin /\ mainPos.y >= sh - margin
              THEN Append(p7, Tagged(copy(-W, -H), "corner-tl")) ELSE p7
    IN  p8

getWrappedPositions(worldPos, playerPos, center, sc, screenWidth, screenHeight) ==
    LET margin == WrapMargin * SubPx
        sw == screenWidth * SubPx
        sh == screenHeight * SubPx
        W == WORLD_CONFIG.width
        H == WORLD_CONFIG.height
        copy(ox, oy) == worldToScreen([x |-> worldPos.x + ox, y |-> worldPos.y + oy],
                                      playerPos, center, sc)
        mainPos == worldToScreen(worldPos, playerPos, center, sc)
        p0 == <<Tagged(mainPos, "main")>>
        p1 == IF mainPos.x < margin /\ copy(W, 0).x <= sw + margin
              THEN Append(p0, Tagged(copy(W, 0), "right")) ELSE p0
        p2 == IF mainPos.x > sw - margin /\ copy(-W, 0).x >= -margin
              THEN Append(p1, Tagged(copy(-W, 0), "left")) ELSE p1
        p3 == IF mainPos.y < margin /\ copy(0, H).y <= sh + margin
              THEN Append(p2, Tagged(copy(0, H), "bottom")) ELSE p2
        p4 == IF mainPos.y > sh - margin /\ copy(0, -H).y >= -margin
              THEN Append(p3, Tagged(copy(0, -H), "top")) ELSE p3
        p5 == IF mainPos.x < margin /\ mainPos.y < margin
              THEN Append(p4, Tagged(copy(W, H), "corner-br")) ELSE p4
        p6 == IF mainPos.x > sw - margin /\ mainPos.y < margin
              THEN Append(p5, Tagged(copy(-W, H), "corner-bl")) ELSE p5
        p7 == IF mainPos.x < margin /\ mainPos.y > sh - margin
              THEN Append(p6, Tagged(copy(W, -H), "corner-tr")) ELSE p6
        p8 == IF mainPos.x > sw - margin /\ mainPos.y > sh - margin
              THEN Append(p7, Tagged(copy(-W, -H), "corner-tl")) ELSE p7
    IN  p8

(* the visibility test of the render: positions farther than the margin    *)
(* outside the container are not rendered                                   *)
VisibilityMargin == 50

isVisible_horizontal(pos, dims) ==
    /\ pos.x >= -(VisibilityMargin * SubPx)
    /\ pos.x <= (dims.width + VisibilityMargin) * SubPx

isVisible(pos, dims) ==
    /\ pos.x >= -(VisibilityMargin * SubPx)
    /\ pos.x <= (dims.width + VisibilityMargin) * SubPx
    /\ pos.y >= -(VisibilityMargin * SubPx)
    /\ pos.y <= (dims.height + VisibilityMargin) * SubPx

(* the MapPoint elements rendered for a list of positions of one point *)
renderedCopies(positions, dims) == SelectSeq(positions, LAMBDA pos : isVisible(pos, dims))

(* scale of the toroidal GalaxyMap, in sub-pixels per world unit *)
(* the scale without its default for an unmeasured container *)
scale_noDefault(dims) ==
    (Min2(dims.width, dims.height) * SubPx) \div WORLD_CONFIG.viewportSize

scale(dims) ==
    IF dims.width = 0 THEN SubPx
    ELSE (Min2(dims.width, dims.height) * SubPx) \div WORLD_CONFIG.viewportSize

screenCenter(dims) ==
    [x |-> (dims.width * SubPx) \div 2, y |-> (dims.height * SubPx) \div 2]

----------------------------------------------------------------------------
(* JavaScript values that can sit in a coordinate: a number, a string that  *)
(* is not a number (such as "abc"), or undefined (a missing property)       *)

Num(n) == [t |-> "num", v |-> n]

NaS == [t |-> "str", v |-> 0]

Undefined == [t |-> "undefined", v |-> 0]

IsNum(val) == val.t = "num"

(* truthiness as used by  pos.x || default  *)
Truthy(val) == val.t = "str" \/ (val.t = "num" /\ val.v # 0)

(* value + number: numeric addition, or string concatenation *)
JsPlus(val, n) == IF IsNum(val) THEN Num(val.v + n) ELSE NaS

(* wrap applied to a JavaScript value: both comparisons of a non-numeric    *)
(* string with a number are false, so the value is returned as it is        *)
JsWrap(val, min, max) ==
    IF IsNum(val) THEN Num(wrap(val.v, min, max)) ELSE val

TruncDiv(a, b) == IF a >= 0 THEN a \div b ELSE -((-a) \div b)

CenterX == WORLD_CONFIG.width \div 2

CenterY == WORLD_CONFIG.height \div 2

(* stored documents: no entry, text that is not JSON, the JSON null, or an  *)
(* object with properties x and y                                           *)
Absent == [kind |-> "absent", x |-> Undefined, y |-> Undefined]

NotJson == [kind |-> "invalid", x |-> Undefined, y |-> Undefined]

JsonNull == [kind |-> "null", x |-> Undefined, y |-> Undefined]

Obj(x, y) == [kind |-> "object", x |-> x, y |-> y]

ShipIdle ==
    /\ mounted = FALSE
    /\ storage = Absent
    /\ shipX = Num(CenterX)
    /\ shipY = Num(CenterY)
    /\ shipPositionRef = [x |-> Num(CenterX), y |-> Num(CenterY)]
    /\ currentShipPosition = [x |-> Num(CenterX), y |-> Num(CenterY)]
    /\ isDragging = FALSE
    /\ containerDimensions = [width |-> 0, height |-> 0]
    /\ dragDims = [width |-> 0, height |-> 0]
    /\ velocity = [x |-> 0, y |-> 0]
    /\ loops = <<>>
    /\ pendingSaves = 0
    /\ lastOp = "none"
    /\ events = 0

OffsetIdle ==
    /\ mapPosition = [x |-> 0, y |-> 0]
    /\ dragStart = [x |-> 0, y |-> 0]
    /\ selectedPoint = "none"

ClickIdle ==
    /\ clickTarget = "none"
    /\ callbacks = <<>>

EarlyIdle == shipRotation = 0

BoundedIdle ==
    /\ mapX = 0
    /\ mapY = 0
    /\ playerStorage = Absent
    /\ shipPosition = [x |-> Num(50), y |-> Num(50)]
    /\ nearbyPoint = "none"
    /\ crashed = FALSE
    /\ anim = [left |-> 0, from |-> [x |-> 0, y |-> 0]]

----------------------------------------------------------------------------
(* The coordinate functions applied to inputs drawn from bounded sets *)

NAVIGATION_CONFIG ==
    [radiusFactor |-> 35, warningZone |-> 30, minRadius |-> 140, maxRadius |-> 280]

(* the radius without its upper limit *)
calculateNavigationBounds_noMaximum(containerWidth, containerHeight) ==
    IF containerWidth <= 0 \/ containerHeight <= 0
    THEN [radius |-> NAVIGATION_CONFIG.minRadius,
          centerX |-> 0, centerY |-> 0,
          warningRadius |-> NAVIGATION_CONFIG.minRadius - NAVIGATION_CONFIG.warningZone,
          boundaryShown |-> FALSE]
    ELSE LET minDimension == Min2(containerWidth, containerHeight)
             radius == Max2(NAVIGATION_CONFIG.minRadius,
                            (minDimension * NAVIGATION_CONFIG.radiusFactor) \div 100)
         IN  [radius |-> radius,
              centerX |-> containerWidth \div 2, centerY |-> containerHeight \div 2,
              warningRadius |-> radius - NAVIGATION_CONFIG.warningZone,
              boundaryShown |-> TRUE]

(* radiusFactor is in percent, lengths are whole pixels; boundaryStyles is
   kept as its visibility *)
calculateNavigationBounds(containerWidth, containerHeight) ==
    IF containerWidth <= 0 \/ containerHeight <= 0
    THEN [radius |-> NAVIGATION_CONFIG.minRadius,
          centerX |-> 0, centerY |-> 0,
          warningRadius |-> NAVIGATION_CONFIG.minRadius - NAVIGATION_CONFIG.warningZone,
          boundaryShown |-> FALSE]
    ELSE LET minDimension == Min2(containerWidth, containerHeight)
             radius == Max2(NAVIGATION_CONFIG.minRadius,
                            Min2(NAVIGATION_CONFIG.maxRadius,
                                 (minDimension * NAVIGATION_CONFIG.radiusFactor) \div 100))
         IN  [radius |-> radius,
              centerX |-> containerWidth \div 2, centerY |-> containerHeight \div 2,
              warningRadius |-> radius - NAVIGATION_CONFIG.warningZone,
              boundaryShown |-> TRUE]

MaxCoord == 7
MaxPeriods == 3

WrapValues == -(2 * MaxCoord) .. (2 * MaxCoord)
WrapLimits == -2 .. (MaxCoord - 2)
DeltaCoords == -(2 * MaxCoord) .. (2 * MaxCoord)
DeltaSizes == 1 .. MaxCoord

ProjWorld == {0, 150, 2000, 2200, 2500, 4750, 4999}
ProjPlayer == {0, 100, 2500, 4900}
ProjSizes == {100, 500, 1000}

DistCoords == -2 .. MaxCoord
DistWorlds == {<<4, 4>>, <<4, 6>>, <<5, 3>>}
SeamCoords == {0, 1, 2499, 2500, 4999}

DistArgs ==
    {<<ax, ay, bx, by, world[1], world[2]>> : ax \in DistCoords, ay \in DistCoords, bx \in DistCoords, by \in DistCoords, world \in DistWorlds}
        \cup {<<ax, ay, bx, by, WORLD_CONFIG.width, WORLD_CONFIG.height>> : ax \in SeamCoords, ay \in SeamCoords, bx \in SeamCoords, by \in SeamCoords}

WrapArgs == {<<v, min, max>> : v \in WrapValues, min \in WrapLimits, max \in WrapLimits}

DeltaArgs == {<<a, b, size>> : a \in DeltaCoords, b \in DeltaCoords, size \in DeltaSizes}

(* container sides on which 35% and one half are whole pixels *)
NavSizes == {-20, 0, 20, 380, 400, 420, 600, 780, 800, 820, 2000}

NavArgs == {<<w, h>> : w \in NavSizes, h \in NavSizes}

ProjArgs ==
    {<<wx, wy, px, py, w, h>> : wx \in ProjWorld, wy \in ProjWorld,
                                px \in ProjPlayer, py \in ProjPlayer,
                                w \in ProjSizes, h \in ProjSizes}

InitPure ==
    /\ variant = "pure"
    /\ \/ pureFn = "wrap" /\ pureArgs \in WrapArgs
       \/ pureFn = "getWrappedDelta" /\ pureArgs \in DeltaArgs
       \/ pureFn = "getWrappedPositions" /\ pureArgs \in ProjArgs
       \/ pureFn = "toroidalDistance" /\ pureArgs \in DistArgs
       \/ pureFn = "renderPoint" /\ pureArgs \in ProjArgs
       \/ pureFn = "calculateNavigationBounds" /\ pureArgs \in NavArgs
    /\ pureDone = FALSE
    /\ pureNum = 0
    /\ purePositions = <<>>
    /\ ShipIdle /\ OffsetIdle /\ ClickIdle /\ EarlyIdle /\ BoundedIdle

ApplyWrap ==
    /\ variant = "pure" /\ pureFn = "wrap" /\ ~pureDone
    /\ pureNum' = wrap(pureArgs[1], pureArgs[2], pureArgs[3])
    /\ pureDone' = TRUE
    /\ UNCHANGED <<variant, earlyVars, pureFn, pureArgs, purePositions, shipVars, offsetVars, clickVars, boundedVars>>

ApplyWrappedDelta ==
    /\ variant = "pure" /\ pureFn = "getWrappedDelta" /\ ~pureDone
    /\ pureNum' = getWrappedDelta(pureArgs[1], pureArgs[2], pureArgs[3])
    /\ pureDone' = TRUE
    /\ UNCHANGED <<variant, earlyVars, pureFn, pureArgs, purePositions, shipVars, offsetVars, clickVars, boundedVars>>

ApplyWrappedPositions ==
    /\ variant = "pure" /\ pureFn = "getWrappedPositions" /\ ~pureDone
    /\ LET dims == [width |-> pureArgs[5], height |-> pureArgs[6]]
       IN  purePositions' =
              getWrappedPositions([x |-> pureArgs[1], y |-> pureArgs[2]],
                                  [x |-> pureArgs[3], y |-> pureArgs[4]],
                                  screenCenter(dims), scale(dims),
                                  dims.width, dims.height)
    /\ pureDone' = TRUE
    /\ UNCHANGED <<variant, earlyVars, pureFn, pureArgs, pureNum, shipVars, offsetVars, clickVars, boundedVars>>

ApplyToroidalDistance ==
    /\ variant = "pure" /\ pureFn = "toroidalDistance" /\ ~pureDone
    /\ pureNum' = toroidalDistanceSq([x |-> pureArgs[1], y |-> pureArgs[2]],
                                     [x |-> pureArgs[3], y |-> pureArgs[4]],
                                     pureArgs[5], pureArgs[6])
    /\ pureDone' = TRUE
    /\ UNCHANGED <<variant, earlyVars, pureFn, pureArgs, purePositions, shipVars, offsetVars, clickVars, boundedVars>>

(* the render of one point: its wrapped positions, culled *)
RenderPoint ==
    /\ variant = "pure" /\ pureFn = "renderPoint" /\ ~pureDone
    /\ LET dims == [width |-> pureArgs[5], height |-> pureArgs[6]]
       IN  purePositions' =
              renderedCopies(getWrappedPositions([x |-> pureArgs[1], y |-> pureArgs[2]],
                                                 [x |-> pureArgs[3], y |-> pureArgs[4]],
                                                 screenCenter(dims), scale(dims),
                                                 dims.width, dims.height),
                             dims)
    /\ pureDone' = TRUE
    /\ UNCHANGED <<variant, earlyVars, pureFn, pureArgs, pureNum, shipVars, offsetVars, clickVars, boundedVars>>

(* the result record is kept as a one-element sequence *)
ApplyNavigationBounds ==
    /\ variant = "pure" /\ pureFn = "calculateNavigationBounds" /\ ~pureDone
    /\ purePositions' = <<calculateNavigationBounds(pureArgs[1], pureArgs[2])>>
    /\ pureDone' = TRUE
    /\ UNCHANGED <<variant, earlyVars, pureFn, pureArgs, pureNum, shipVars, offsetVars, clickVars, boundedVars>>

NextPure ==
    \/ ApplyWrap
    \/ ApplyWrappedDelta
    \/ ApplyWrappedPositions
    \/ ApplyToroidalDistance
    \/ RenderPoint
    \/ ApplyNavigationBounds

SpecPure == InitPure /\ [][NextPure]_vars

----------------------------------------------------------------------------
(* Properties of the coordinate functions *)

WrapReturned == variant = "pure" /\ pureFn = "wrap" /\ pureDone

DeltaReturned == variant = "pure" /\ pureFn = "getWrappedDelta" /\ pureDone

PositionsReturned == variant = "pure" /\ pureFn = "getWrappedPositions" /\ pureDone

\* C6: every ghost position returned by getWrappedPositions is the primary
\* position translated by +/- worldWidth*scale on x and/or +/- worldHeight*scale
\* on y, and no ghost coincides with the primary position.
C6_GhostsAreTranslations ==
    PositionsReturned =>
        LET sc == scale([width |-> pureArgs[5], height |-> pureArgs[6]])
            main == purePositions[1]
        IN  \A i \in 2 .. Len(purePositions) :
                LET ddx == purePositions[i].x - main.x
                    ddy == purePositions[i].y - main.y
                IN  /\ Abs(ddx) \in {0, WORLD_CONFIG.width * sc}
                    /\ Abs(ddy) \in {0, WORLD_CONFIG.height * sc}
                    /\ <<ddx, ddy>> # <<0, 0>>

\* C7: for all a, b and every size > 0, also for a and b more than one period
\* apart, |getWrappedDelta(a, b, size)| is at most size / 2.
C7_DeltaBoundedAlways ==
    DeltaReturned => 2 * Abs(pureNum) <= pureArgs[3]

\* C8: for min < max, wrap(value, min, max) lies in [min, max); for
\* max <= min it is min.
C8_WrapInRange ==
    WrapReturned =>
        IF pureArgs[2] < pureArgs[3]
        THEN pureArgs[2] <= pureNum /\ pureNum < pureArgs[3]
        ELSE pureNum = pureArgs[2]

C8_Witness ==
    /\ WrapReturned
    /\ pureArgs[2] < pureArgs[3]
    /\ pureArgs[1] >= pureArgs[3] + (pureArgs[3] - pureArgs[2])
    /\ pureNum < pureArgs[3]

\* C9: wrap is periodic: for min < max and every integer k,
\* wrap(v, min, max) = wrap(v + k * (max - min), min, max).
C9_WrapPeriodic ==
    (WrapReturned /\ pureArgs[2] < pureArgs[3]) =>
        \A k \in -MaxPeriods .. MaxPeriods :
            wrap(pureArgs[1] + k * (pureArgs[3] - pureArgs[2]), pureArgs[2], pureArgs[3])
                = pureNum

C9_Witness ==
    /\ WrapReturned
    /\ pureArgs[2] < pureArgs[3]
    /\ pureArgs[1] < pureArgs[2] - (pureArgs[3] - pureArgs[2])
    /\ pureNum >= pureArgs[2]

\* C10: moving from a by the wrapped delta lands on b modulo the size:
\* wrap(a + getWrappedDelta(a, b, size), 0, size) = wrap(b, 0, size).
C10_DeltaReachesTarget ==
    DeltaReturned =>
        wrap(pureArgs[1] + pureNum, 0, pureArgs[3]) = wrap(pureArgs[2], 0, pureArgs[3])

C10_Witness ==
    /\ DeltaReturned
    /\ 2 * (pureArgs[2] - pureArgs[1]) < -pureArgs[3]
    /\ pureNum = pureArgs[2] - pureArgs[1] + pureArgs[3]

DistanceReturned == variant = "pure" /\ pureFn = "toroidalDistance" /\ pureDone

DistA == [x |-> pureArgs[1], y |-> pureArgs[2]]

DistB == [x |-> pureArgs[3], y |-> pureArgs[4]]

InsideWorld(p) ==
    /\ 0 <= p.x /\ p.x < pureArgs[5]
    /\ 0 <= p.y /\ p.y < pureArgs[6]

(* squared straight-line distances from a to the translations of b *)
TranslatedDistancesSq ==
    {(DistB.x + kx * pureArgs[5] - DistA.x) * (DistB.x + kx * pureArgs[5] - DistA.x)
        + (DistB.y + ky * pureArgs[6] - DistA.y) * (DistB.y + ky * pureArgs[6] - DistA.y) :
            kx \in -MaxPeriods .. MaxPeriods, ky \in -MaxPeriods .. MaxPeriods}

\* C11: for a and b inside the world, toroidalDistance(a, b, W, H) is the
\* minimum of the straight-line distances from a to the translations of b by
\* multiples of W and H, and so it never exceeds the non-wrapped distance.
C11_DistanceIsMinimum ==
    (DistanceReturned /\ InsideWorld(DistA) /\ InsideWorld(DistB)) =>
        /\ pureNum \in TranslatedDistancesSq
        /\ \A d \in TranslatedDistancesSq : pureNum <= d

C11_Witness ==
    /\ DistanceReturned /\ InsideWorld(DistA) /\ InsideWorld(DistB)
    /\ 2 * (DistB.x - DistA.x) > pureArgs[5]
    /\ 2 * (DistA.y - DistB.y) > pureArgs[6]
    /\ pureNum < (DistB.x - DistA.x) * (DistB.x - DistA.x)

\* C12: toroidalDistance(a, b, W, H) = toroidalDistance(b, a, W, H) for all
\* points and world sizes, also when a coordinate difference is exactly half
\* the world size.
C12_DistanceSymmetric ==
    DistanceReturned =>
        pureNum = toroidalDistanceSq(DistB, DistA, pureArgs[5], pureArgs[6])

C12_Witness ==
    /\ DistanceReturned
    /\ 2 * (DistB.x - DistA.x) = pureArgs[5]
    /\ 2 * (DistA.y - DistB.y) > pureArgs[6]
    /\ pureNum > 0

SeamScenario ==
    /\ DistanceReturned
    /\ pureArgs[5] = WORLD_CONFIG.width /\ pureArgs[6] = WORLD_CONFIG.height
    /\ DistB = [x |-> 4999, y |-> 2500]

\* C13: in the 5000 x 5000 world the distance from the viewer at (2500, 2500)
\* to the point at (4999, 2500) is 1.
C13_SeamDistanceIsOne ==
    (SeamScenario /\ DistA = [x |-> 2500, y |-> 2500]) => pureNum = 1

\* C13 amended: in the 5000 x 5000 world the distance from the viewer at
\* (2500, 2500) to the point at (4999, 2500) is 2499, the straight path (the
\* path across the seam is 2501 long); from a viewer at (0, 2500) the distance
\* to that point is 1, across the seam.
C13_SeamDistance ==
    /\ (SeamScenario /\ DistA = [x |-> 2500, y |-> 2500]) => pureNum = 2499 * 2499
    /\ (SeamScenario /\ DistA = [x |-> 0, y |-> 2500]) => pureNum = 1

C13_Witness ==
    /\ SeamScenario /\ DistA = [x |-> 0, y |-> 2500]
    /\ pureNum = 1

PointRendered == variant = "pure" /\ pureFn = "renderPoint" /\ pureDone

\* C19: every rendered copy of a point, primary or ghost, has screen x in
\* [-margin, width + margin] and screen y in [-margin, height + margin].
C19_RenderedInsideBounds ==
    PointRendered =>
        \A i \in 1 .. Len(purePositions) :
            /\ -(50 * SubPx) <= purePositions[i].x
            /\ purePositions[i].x <= (pureArgs[5] + 50) * SubPx
            /\ -(50 * SubPx) <= purePositions[i].y
            /\ purePositions[i].y <= (pureArgs[6] + 50) * SubPx

(* something was culled and something was rendered *)
C19_Witness ==
    /\ PointRendered
    /\ Len(purePositions) >= 2
    /\ LET dims == [width |-> pureArgs[5], height |-> pureArgs[6]]
       IN  Len(purePositions) <
              Len(getWrappedPositions([x |-> pureArgs[1], y |-> pureArgs[2]],
                                      [x |-> pureArgs[3], y |-> pureArgs[4]],
                                      screenCenter(dims), scale(dims),
                                      dims.width, dims.height))

PrimaryAwayFromEdges ==
    /\ purePositions[1].x >= 100 * SubPx
    /\ purePositions[1].x <= (pureArgs[5] - 100) * SubPx
    /\ purePositions[1].y >= 100 * SubPx
    /\ purePositions[1].y <= (pureArgs[6] - 100) * SubPx

\* C20: for every point, viewer position and viewport size, also viewports
\* narrower than twice the margin, getWrappedPositions returns the primary
\* position plus at most 7 ghost copies, and no ghost copy when the primary
\* position is at least the margin away from all four viewport edges.
C20_AtMostSevenGhosts ==
    PositionsReturned =>
        /\ purePositions[1].id = "main"
        /\ Len(purePositions) <= 1 + 7
        /\ PrimaryAwayFromEdges => Len(purePositions) = 1

\* C20 amended: getWrappedPositions returns the primary position plus at most
\* 8 ghost copies (4 edges and 4 corners), at most 3 when the viewport is at
\* least twice the margin wide and high, and no ghost copy when the primary
\* position is at least the margin away from all four viewport edges.
C20_AtMostEightGhosts ==
    PositionsReturned =>
        /\ purePositions[1].id = "main"
        /\ Len(purePositions) <= 1 + 8
        /\ (pureArgs[5] >= 200 /\ pureArgs[6] >= 200) => Len(purePositions) <= 1 + 3
        /\ PrimaryAwayFromEdges => Len(purePositions) = 1

(* the primary position is exactly the margin away from the left edge *)
C20_Witness ==
    /\ PositionsReturned
    /\ PrimaryAwayFromEdges
    /\ purePositions[1].x = 100 * SubPx
    /\ Len(purePositions) = 1

BoundsReturned == variant = "pure" /\ pureFn = "calculateNavigationBounds" /\ pureDone

\* C30: for every container width and height calculateNavigationBounds
\* returns a radius in [140, 280] and warningRadius = radius - 30; for
\* positive dimensions the radius is 35% of the smaller side clamped into
\* [140, 280] and the center is (width / 2, height / 2).
C30_NavigationBounds ==
    BoundsReturned =>
        LET bounds == purePositions[1]
            width == pureArgs[1]
            height == pureArgs[2]
            percent == 35 * Min2(width, height)
        IN  /\ 140 <= bounds.radius /\ bounds.radius <= 280
            /\ bounds.warningRadius = bounds.radius - 30
            /\ (width > 0 /\ height > 0) =>
                   /\ 100 * bounds.radius = Max2(100 * 140, Min2(100 * 280, percent))
                   /\ 2 * bounds.centerX = width
                   /\ 2 * bounds.centerY = height

C30_Witness ==
    /\ BoundsReturned
    /\ pureArgs = <<2000, 600>>
    /\ purePositions[1].radius = 210
    /\ purePositions[1].centerX = 1000

----------------------------------------------------------------------------
(* The toroidal GalaxyMap: WorldScreen.tsx ("torus") and its momentum       *)
(* revision in part_002 ("momentum")                                        *)

MaxEvents == 4

ContainerSizes == {0, 500, 1000}

DragDeltas == {<<0, 0>>, <<2, 0>>, <<-300, 400>>, <<2600, -2600>>}

DragIntervalsMs == {250, 1000}

FrameIntervalsMs == {16, 500}

InitialStorage ==
    {Absent, NotJson, JsonNull, Obj(NaS, Undefined), Obj(Undefined, Num(4999)),
     Obj(Num(7000), Num(-3)), Obj(Num(0), Num(1200)), Obj(Num(2200), Num(2250))}

Toroidal == variant \in {"torus", "momentum"}

GALAXY_POINTS ==
    {[id |-> "terra-nova", x |-> 2000, y |-> 2250],
     [id |-> "estacao-omega", x |-> 3000, y |-> 1750],
     [id |-> "nebulosa-crimson", x |-> 1500, y |-> 3250],
     [id |-> "campo-asteroides", x |-> 3500, y |-> 2750],
     [id |-> "mundo-gelado", x |-> 2500, y |-> 1250],
     [id |-> "estacao-borda", x |-> 4750, y |-> 500],
     [id |-> "planeta-limite", x |-> 250, y |-> 4500]}

Position == [x |-> shipX, y |-> shipY]

Center == [x |-> Num(CenterX), y |-> Num(CenterY)]

(* the load-saved-position effect: the position it leaves, given the one    *)
(* before it                                                                *)
LoadSaved(doc, before) ==
    IF doc.kind = "absent" THEN before
    ELSE IF doc.kind = "object"
         THEN [x |-> JsWrap(IF Truthy(doc.x) THEN doc.x ELSE Num(CenterX),
                            0, WORLD_CONFIG.width),
               y |-> JsWrap(IF Truthy(doc.y) THEN doc.y ELSE Num(CenterY),
                            0, WORLD_CONFIG.height)]
         ELSE Center

(* savePosition / JSON.stringify of the position *)
Saved(pos) == Obj(pos.x, pos.y)

(* the dimensions handleDrag of part_002 sees: its closure is rebuilt only  *)
(* when scale changes                                                       *)
CapturedDims(old, new, captured) ==
    IF scale(new) # scale(old) THEN new ELSE captured

InitTorus ==
    /\ variant \in {"torus", "momentum"}
    /\ pureFn = "none" /\ pureArgs = <<>> /\ pureDone = FALSE
    /\ pureNum = 0 /\ purePositions = <<>>
    /\ mounted = FALSE
    /\ storage \in InitialStorage
    /\ shipX = Num(CenterX)
    /\ shipY = Num(CenterY)
    /\ shipPositionRef = Center
    /\ currentShipPosition = Center
    /\ isDragging = FALSE
    /\ containerDimensions = [width |-> 0, height |-> 0]
    /\ dragDims = [width |-> 0, height |-> 0]
    /\ velocity = [x |-> 0, y |-> 0]
    /\ loops = <<>>
    /\ pendingSaves = 0
    /\ lastOp = "none"
    /\ events = 0
    /\ OffsetIdle /\ ClickIdle /\ EarlyIdle /\ BoundedIdle

(* mount: first render with the defaults, then the effects: load the saved  *)
(* position, measure the container                                          *)
Mount ==
    /\ Toroidal /\ ~mounted /\ events < MaxEvents
    /\ \E w \in ContainerSizes, h \in ContainerSizes :
          LET dims == [width |-> w, height |-> h]
              zero == [width |-> 0, height |-> 0]
          IN  /\ containerDimensions' = dims
              /\ dragDims' = CapturedDims(zero, dims, zero)
    /\ mounted' = TRUE
    /\ isDragging' = FALSE
    /\ currentShipPosition' = Center
    /\ IF variant = "torus"
       THEN /\ shipX' = LoadSaved(storage, Center).x
            /\ shipY' = LoadSaved(storage, Center).y
            /\ shipPositionRef' = Center
       ELSE /\ shipX' = Num(CenterX)
            /\ shipY' = Num(CenterY)
            /\ shipPositionRef' = LoadSaved(storage, Center)
    /\ velocity' = [x |-> 0, y |-> 0]
    /\ loops' = <<>>
    /\ pendingSaves' = 0
    /\ nearbyPoint' = "none"
    /\ lastOp' = "mount"
    /\ events' = events + 1
    /\ UNCHANGED <<variant, earlyVars, pureVars, offsetVars, clickVars, boundedRest, storage>>

(* unmount: the save effect's cleanup stores the position *)
Unmount ==
    /\ Toroidal /\ mounted /\ events < MaxEvents
    /\ mounted' = FALSE
    /\ storage' = Saved(Position)
    /\ loops' = <<>>
    /\ pendingSaves' = 0
    /\ nearbyPoint' = "none"
    /\ lastOp' = "unmount"
    /\ events' = events + 1
    /\ UNCHANGED <<variant, earlyVars, pureVars, offsetVars, clickVars, boundedRest, shipX, shipY, shipPositionRef, currentShipPosition, isDragging, containerDimensions, dragDims, velocity>>

(* ResizeObserver -> updateDimensions *)
Resize ==
    /\ Toroidal /\ mounted /\ events < MaxEvents
    /\ \E w \in ContainerSizes, h \in ContainerSizes :
          LET dims == [width |-> w, height |-> h]
          IN  /\ dims # containerDimensions
              /\ containerDimensions' = dims
              /\ dragDims' = CapturedDims(containerDimensions, dims, dragDims)
    /\ lastOp' = "resize"
    /\ events' = events + 1
    /\ UNCHANGED <<variant, earlyVars, pureVars, offsetVars, clickVars, boundedVars, mounted, storage, shipX, shipY, shipPositionRef, currentShipPosition, isDragging, velocity, loops, pendingSaves>>

(* handleDragStart; isDragging changes, so the save effect is torn down and *)
(* its cleanup stores the position                                          *)
DragStart ==
    /\ Toroidal /\ mounted /\ ~isDragging /\ events < MaxEvents
    /\ isDragging' = TRUE
    /\ velocity' = [x |-> 0, y |-> 0]
    /\ storage' = Saved(Position)
    /\ lastOp' = "dragStart"
    /\ events' = events + 1
    /\ UNCHANGED <<variant, earlyVars, pureVars, offsetVars, clickVars, boundedVars, mounted, shipX, shipY, shipPositionRef, currentShipPosition, containerDimensions, dragDims, loops, pendingSaves>>

(* -delta / scale, delta in pixels *)
WorldDelta(delta, sc) == TruncDiv(-(delta * SubPx), sc)

Moved(pos, wdx, wdy) ==
    [x |-> JsWrap(JsPlus(pos.x, wdx), 0, WORLD_CONFIG.width),
     y |-> JsWrap(JsPlus(pos.y, wdy), 0, WORLD_CONFIG.height)]

(* handleDrag of WorldScreen.tsx *)
DragTorus(delta) ==
    LET sc == scale(containerDimensions)
    IN  IF sc = 0
        THEN UNCHANGED <<shipX, shipY, storage, velocity>>
        ELSE LET new == Moved(Position, WorldDelta(delta[1], sc), WorldDelta(delta[2], sc))
             IN  /\ shipX' = new.x
                 /\ shipY' = new.y
                 /\ UNCHANGED <<storage, velocity>>

(* handleDrag of part_002; the position state changes, so the save effect   *)
(* is torn down and its cleanup stores the position of the previous render  *)
DragMomentum(delta, dt) ==
    LET sc == scale(containerDimensions)
    IN  IF dragDims.width = 0 \/ sc = 0
        THEN UNCHANGED <<shipX, shipY, storage, velocity>>
        ELSE LET wdx == WorldDelta(delta[1], sc)
                 wdy == WorldDelta(delta[2], sc)
                 new == Moved(Position, wdx, wdy)
             IN  /\ shipX' = new.x
                 /\ shipY' = new.y
                 /\ storage' = Saved(Position)
                 /\ velocity' = [x |-> TruncDiv(wdx * 1000, dt),
                                 y |-> TruncDiv(wdy * 1000, dt)]

Drag ==
    /\ Toroidal /\ mounted /\ isDragging /\ events < MaxEvents
    /\ \E delta \in DragDeltas, dt \in DragIntervalsMs :
          IF variant = "torus" THEN dt = 250 /\ DragTorus(delta)
          ELSE DragMomentum(delta, dt)
    /\ lastOp' = "drag"
    /\ events' = events + 1
    /\ UNCHANGED <<variant, earlyVars, pureVars, offsetVars, clickVars, boundedVars, mounted, shipPositionRef, currentShipPosition, isDragging, containerDimensions, dragDims, loops, pendingSaves>>

SpeedSq(v) == v.x * v.x + v.y * v.y

(* handleDragEnd: WorldScreen.tsx stores the position; part_002 starts      *)
(* applyMomentum when speed > 50 and arms the 100 ms save timer             *)
DragEnd ==
    /\ Toroidal /\ mounted /\ isDragging /\ events < MaxEvents
    /\ isDragging' = FALSE
    /\ storage' = Saved(Position)
    /\ IF variant = "momentum"
       THEN /\ loops' = IF SpeedSq(velocity) > 50 * 50
                        THEN Append(loops, [v |-> velocity, elapsed |-> 0,
                                            speedSq |-> SpeedSq(velocity)])
                        ELSE loops
            /\ pendingSaves' = pendingSaves + 1
       ELSE UNCHANGED <<loops, pendingSaves>>
    /\ lastOp' = "dragEnd"
    /\ events' = events + 1
    /\ UNCHANGED <<variant, earlyVars, pureVars, offsetVars, clickVars, boundedVars, mounted, shipX, shipY, shipPositionRef, currentShipPosition, containerDimensions, dragDims, velocity>>

RemoveAt(seq, i) == SubSeq(seq, 1, i - 1) \o SubSeq(seq, i + 1, Len(seq))

(* a duration that never runs out *)
WithinDuration_unlimited(elapsedMs, speedSq) == TRUE

(* elapsed < momentumDuration  with  momentumDuration = min(speed / 100, 2) *)
(* seconds, elapsed in milliseconds                                         *)
WithinDuration(elapsedMs, speedSq) ==
    /\ elapsedMs < 2000
    /\ speedSq >= 200 * 200 \/ elapsedMs * elapsedMs < 100 * speedSq

Decayed(v) == [x |-> TruncDiv(v.x * 95, 100), y |-> TruncDiv(v.y * 95, 100)]

(* one requestAnimationFrame callback of applyMomentum *)
MomentumFrame ==
    /\ variant = "momentum" /\ mounted
    /\ \E i \in 1 .. Len(loops), dt \in FrameIntervalsMs :
          LET loop == loops[i]
              elapsed == loop.elapsed + dt
          IN  IF WithinDuration(elapsed, loop.speedSq) /\ SpeedSq(loop.v) > 10 * 10
              THEN LET v == Decayed(loop.v)
                       new == Moved(Position, TruncDiv(v.x * 16, 1000), TruncDiv(v.y * 16, 1000))
                   IN  /\ shipX' = new.x
                       /\ shipY' = new.y
                       /\ storage' = Saved(Position)
                       /\ loops' = [loops EXCEPT ![i] = [v |-> v, elapsed |-> elapsed,
                                                         speedSq |-> loop.speedSq]]
              ELSE /\ loops' = RemoveAt(loops, i)
                   /\ UNCHANGED <<shipX, shipY, storage>>
    /\ lastOp' = "momentum"
    /\ UNCHANGED <<variant, earlyVars, pureVars, offsetVars, clickVars, boundedVars, mounted, shipPositionRef, currentShipPosition, isDragging, containerDimensions, dragDims, velocity, pendingSaves, events>>

(* the 100 ms timer armed by handleDragEnd of part_002 *)
SaveTimer ==
    /\ variant = "momentum" /\ mounted /\ pendingSaves > 0
    /\ storage' = Saved(Position)
    /\ pendingSaves' = pendingSaves - 1
    /\ lastOp' = "saveTimer"
    /\ UNCHANGED <<variant, earlyVars, pureVars, offsetVars, clickVars, boundedVars, mounted, shipX, shipY, shipPositionRef, currentShipPosition, isDragging, containerDimensions, dragDims, velocity, loops, events>>

(* the interval without its isDragging test *)
SaveTick_whileDragging ==
    /\ Toroidal /\ mounted
    /\ storage' = Saved(Position)
    /\ lastOp' = "saveTick"
    /\ UNCHANGED <<variant, earlyVars, pureVars, offsetVars, clickVars, boundedVars, mounted, shipX, shipY, shipPositionRef, currentShipPosition, isDragging, containerDimensions, dragDims, velocity, loops, pendingSaves, events>>

(* the 2 s interval of the save effect *)
SaveTick ==
    /\ Toroidal /\ mounted
    /\ storage' = IF ~isDragging THEN Saved(Position) ELSE storage
    /\ lastOp' = "saveTick"
    /\ UNCHANGED <<variant, earlyVars, pureVars, offsetVars, clickVars, boundedVars, mounted, shipX, shipY, shipPositionRef, currentShipPosition, isDragging, containerDimensions, dragDims, velocity, loops, pendingSaves, events>>

(* resetShipPosition without its removeItem *)
resetStorage_kept(doc, pos) ==
    IF variant = "momentum" THEN Saved(pos) ELSE doc

(* the entry resetShipPosition leaves: removed; in part_002 the position    *)
(* state changes, so the save effect's cleanup runs after removeItem and    *)
(* stores the previous position                                             *)
resetStorage(doc, pos) ==
    IF variant = "momentum" THEN Saved(pos) ELSE Absent

(* resetShipPosition *)
ResetShipPosition ==
    /\ Toroidal /\ mounted /\ events < MaxEvents
    /\ shipX' = Num(CenterX)
    /\ shipY' = Num(CenterY)
    /\ storage' = resetStorage(storage, Position)
    /\ lastOp' = "reset"
    /\ events' = events + 1
    /\ UNCHANGED <<variant, earlyVars, pureVars, offsetVars, clickVars, boundedVars, mounted, shipPositionRef, currentShipPosition, isDragging, containerDimensions, dragDims, velocity, loops, pendingSaves>>

(* the proximity check of the toroidal maps *)
TorusThreshold == 200

TorusDistSq(pos, point) ==
    toroidalDistanceSq([x |-> pos.x.v, y |-> pos.y.v], [x |-> point.x, y |-> point.y],
                       WORLD_CONFIG.width, WORLD_CONFIG.height)

(* a coordinate that is not a number makes the distance NaN, which is below *)
(* no threshold                                                             *)
TorusCandidates(pos) ==
    IF IsNum(pos.x) /\ IsNum(pos.y)
    THEN {point \in GALAXY_POINTS : TorusDistSq(pos, point) < TorusThreshold * TorusThreshold}
    ELSE {}

(* no two of GALAXY_POINTS are within twice the threshold of each other, so *)
(* at most one point is a candidate                                         *)
torusCheckProximity(pos) ==
    IF TorusCandidates(pos) = {} THEN "none"
    ELSE (CHOOSE point \in TorusCandidates(pos) :
            \A other \in TorusCandidates(pos) :
                TorusDistSq(pos, point) <= TorusDistSq(pos, other)).id

(* the position checkProximity reads: shipX.get(), shipY.get() in           *)
(* WorldScreen.tsx, shipPositionRef.current in part_002                     *)
ProximityPosition == IF variant = "torus" THEN Position ELSE shipPositionRef

(* setInterval(checkProximity, 500) *)
ProximityTick ==
    /\ Toroidal /\ mounted
    /\ nearbyPoint' = torusCheckProximity(ProximityPosition)
    /\ lastOp' = "proximity"
    /\ UNCHANGED <<variant, earlyVars, pureVars, offsetVars, clickVars, boundedRest, mounted, storage, shipX, shipY, shipPositionRef, currentShipPosition, isDragging, containerDimensions, dragDims, velocity, loops, pendingSaves, events>>

NextTorus ==
    \/ ProximityTick
    \/ Mount
    \/ Unmount
    \/ Resize
    \/ DragStart
    \/ Drag
    \/ DragEnd
    \/ MomentumFrame
    \/ SaveTimer
    \/ SaveTick
    \/ ResetShipPosition

SpecTorus == InitTorus /\ [][NextTorus]_vars

(* the map of WorldScreen.tsx alone: it has no momentum and no save timer *)
InitWorldScreen == InitTorus /\ variant = "torus"

NextWorldScreen ==
    \/ ProximityTick
    \/ Mount
    \/ Unmount
    \/ Resize
    \/ DragStart
    \/ Drag
    \/ DragEnd
    \/ SaveTick
    \/ ResetShipPosition

SpecWorldScreen == InitWorldScreen /\ [][NextWorldScreen]_vars

(* the map of part_002, mounted with no stored position and measured at     *)
(* 500 x 500, under gestures, timers and animation frames                   *)
InitMomentum ==
    /\ variant = "momentum"
    /\ pureFn = "none" /\ pureArgs = <<>> /\ pureDone = FALSE
    /\ pureNum = 0 /\ purePositions = <<>>
    /\ mounted = TRUE
    /\ storage = Absent
    /\ shipX = Num(CenterX)
    /\ shipY = Num(CenterY)
    /\ shipPositionRef = LoadSaved(Absent, Center)
    /\ currentShipPosition = Center
    /\ isDragging = FALSE
    /\ containerDimensions = [width |-> 500, height |-> 500]
    /\ dragDims = CapturedDims([width |-> 0, height |-> 0], [width |-> 500, height |-> 500],
                               [width |-> 0, height |-> 0])
    /\ velocity = [x |-> 0, y |-> 0]
    /\ loops = <<>>
    /\ pendingSaves = 0
    /\ lastOp = "mount"
    /\ events = 0
    /\ OffsetIdle /\ ClickIdle /\ EarlyIdle /\ BoundedIdle

NextMomentum ==
    \/ DragStart
    \/ Drag
    \/ DragEnd
    \/ MomentumFrame
    \/ SaveTimer
    \/ SaveTick
    \/ ResetShipPosition

SpecMomentum == InitMomentum /\ [][NextMomentum]_vars

(* what the render gives MapPoint for one point: getWrappedPositions with   *)
(* the memoised currentShipPosition                                         *)
RenderedPositions(point) ==
    getWrappedPositions([x |-> point.x, y |-> point.y],
                        [x |-> currentShipPosition.x.v, y |-> currentShipPosition.y.v],
                        screenCenter(containerDimensions), scale(containerDimensions),
                        containerDimensions.width, containerDimensions.height)

----------------------------------------------------------------------------
(* The drag-offset WorldScreen (WorldScreen.tsx, first component)           *)

interactivePoints ==
    {[id |-> "nebula_1", x |-> 42, y |-> 38],
     [id |-> "galaxy_core", x |-> 58, y |-> 42],
     [id |-> "cosmic_forest", x |-> 45, y |-> 60],
     [id |-> "stargate", x |-> 35, y |-> 48],
     [id |-> "energy_field", x |-> 62, y |-> 55],
     [id |-> "void_station", x |-> 55, y |-> 65]}

INTERACTION_DISTANCE == 50

MaxPointerEvents == 5

ClientPoints == {<<400, 400>>, <<128, 192>>, <<178, 192>>, <<179, 192>>, <<2500, -2000>>}

(* calculateDistance, squared *)
calculateDistanceSq(point, offset) ==
    LET adjustedPointX == (point.x * 1600) \div 100 + offset.x
        adjustedPointY == (point.y * 1600) \div 100 + offset.y
    IN  (400 - adjustedPointX) * (400 - adjustedPointX)
            + (400 - adjustedPointY) * (400 - adjustedPointY)

isPointInRange(point, offset) ==
    calculateDistanceSq(point, offset) <= INTERACTION_DISTANCE * INTERACTION_DISTANCE

(* the dragged position without its limits *)
DraggedTo_unlimited(client) ==
    [x |-> client[1] - dragStart.x, y |-> client[2] - dragStart.y]

(* the position handleMouseMove / handleTouchMove stores *)
DraggedTo(client) ==
    [x |-> Max2(-1200, Min2(600, client[1] - dragStart.x)),
     y |-> Max2(-1200, Min2(600, client[2] - dragStart.y))]

(* handlePointClick: the value of selectedPoint it leaves *)
handlePointClick_ignoresDrag(point) ==
    IF isPointInRange(point, mapPosition) THEN point.id ELSE selectedPoint

handlePointClick(point) ==
    IF ~isDragging /\ isPointInRange(point, mapPosition) THEN point.id ELSE selectedPoint

InitOffset ==
    /\ variant = "offset"
    /\ pureFn = "none" /\ pureArgs = <<>> /\ pureDone = FALSE
    /\ pureNum = 0 /\ purePositions = <<>>
    /\ ShipIdle /\ OffsetIdle /\ ClickIdle /\ EarlyIdle /\ BoundedIdle

OffsetFrame == UNCHANGED <<variant, earlyVars, pureVars, clickVars, boundedVars, mounted, storage, containerDimensions, torusOnly>>

GestureStart(client) == [x |-> client[1] - mapPosition.x, y |-> client[2] - mapPosition.y]

handleMouseDown ==
    /\ variant = "offset" /\ events < MaxPointerEvents
    /\ isDragging' = TRUE
    /\ \E client \in ClientPoints : dragStart' = GestureStart(client)
    /\ lastOp' = "mouseDown"
    /\ events' = events + 1
    /\ OffsetFrame /\ UNCHANGED <<mapPosition, selectedPoint>>

handleMouseMove ==
    /\ variant = "offset" /\ events < MaxPointerEvents
    /\ \E client \in ClientPoints :
          mapPosition' = IF ~isDragging THEN mapPosition ELSE DraggedTo(client)
    /\ lastOp' = "mouseMove"
    /\ events' = events + 1
    /\ OffsetFrame /\ UNCHANGED <<isDragging, dragStart, selectedPoint>>

(* also bound to onMouseLeave *)
handleMouseUp ==
    /\ variant = "offset" /\ events < MaxPointerEvents
    /\ isDragging' = FALSE
    /\ lastOp' = "mouseUp"
    /\ events' = events + 1
    /\ OffsetFrame /\ UNCHANGED <<mapPosition, dragStart, selectedPoint>>

handleTouchStart ==
    /\ variant = "offset" /\ events < MaxPointerEvents
    /\ isDragging' = TRUE
    /\ \E client \in ClientPoints : dragStart' = GestureStart(client)
    /\ lastOp' = "touchStart"
    /\ events' = events + 1
    /\ OffsetFrame /\ UNCHANGED <<mapPosition, selectedPoint>>

handleTouchMove ==
    /\ variant = "offset" /\ events < MaxPointerEvents
    /\ \E client \in ClientPoints :
          mapPosition' = IF ~isDragging THEN mapPosition ELSE DraggedTo(client)
    /\ lastOp' = "touchMove"
    /\ events' = events + 1
    /\ OffsetFrame /\ UNCHANGED <<isDragging, dragStart, selectedPoint>>

handleTouchEnd ==
    /\ variant = "offset" /\ events < MaxPointerEvents
    /\ isDragging' = FALSE
    /\ lastOp' = "touchEnd"
    /\ events' = events + 1
    /\ OffsetFrame /\ UNCHANGED <<mapPosition, dragStart, selectedPoint>>

centerMap ==
    /\ variant = "offset" /\ events < MaxPointerEvents
    /\ mapPosition' = [x |-> 0, y |-> 0]
    /\ lastOp' = "centerMap"
    /\ events' = events + 1
    /\ OffsetFrame /\ UNCHANGED <<isDragging, dragStart, selectedPoint>>

(* click on the button of a point *)
PointClick ==
    /\ variant = "offset" /\ events < MaxPointerEvents
    /\ \E point \in interactivePoints :
          /\ selectedPoint' = handlePointClick(point)
          /\ clickTarget' = point.id
    /\ lastOp' = "click"
    /\ events' = events + 1
    /\ UNCHANGED <<variant, earlyVars, pureVars, callbacks, boundedVars, mounted, storage, containerDimensions, torusOnly, isDragging, mapPosition, dragStart>>

closeModal ==
    /\ variant = "offset" /\ events < MaxPointerEvents /\ selectedPoint # "none"
    /\ selectedPoint' = "none"
    /\ lastOp' = "closeModal"
    /\ events' = events + 1
    /\ OffsetFrame /\ UNCHANGED <<isDragging, mapPosition, dragStart>>

NextOffset ==
    \/ handleMouseDown
    \/ handleMouseMove
    \/ handleMouseUp
    \/ handleTouchStart
    \/ handleTouchMove
    \/ handleTouchEnd
    \/ centerMap
    \/ PointClick
    \/ closeModal

SpecOffset == InitOffset /\ [][NextOffset]_vars

----------------------------------------------------------------------------
(* The first GalaxyMap of GalaxyMap.tsx (line 648): the drag handlers write *)
(* the map offset and the ship's angle                                      *)

MaxEarlyEvents == 4

(* deltas along the axes and the diagonals *)
EarlyDeltas == {<<0, 0>>, <<2, 0>>, <<0, -7>>, <<-100, 100>>, <<300, 300>>}

(* Math.atan2(y, x) * (180 / Math.PI) for a vector on an axis or a diagonal; *)
(* atan2(0, 0) is 0                                                         *)
atan2Deg(y, x) ==
    CASE x = 0 /\ y = 0 -> 0
      [] x > 0 /\ y = 0 -> 0
      [] x > 0 /\ y = x -> 45
      [] x = 0 /\ y > 0 -> 90
      [] x < 0 /\ y = -x -> 135
      [] x < 0 /\ y = 0 -> 180
      [] x < 0 /\ y = x -> -135
      [] x = 0 /\ y < 0 -> -90
      [] x > 0 /\ y = -x -> -45

(* the angle handleDrag turns the ship to *)
dragAngle(delta) == atan2Deg(delta[2], delta[1])

InitEarly ==
    /\ variant = "early"
    /\ pureFn = "none" /\ pureArgs = <<>> /\ pureDone = FALSE
    /\ pureNum = 0 /\ purePositions = <<>>
    /\ ShipIdle /\ OffsetIdle /\ ClickIdle /\ BoundedIdle /\ EarlyIdle

EarlyFrame == UNCHANGED <<variant, pureVars, offsetVars, clickVars, mounted, storage, containerDimensions, torusOnly, playerStorage, shipPosition, nearbyPoint, crashed, anim>>

(* handleDragStart *)
DragStartEarly ==
    /\ variant = "early" /\ ~isDragging /\ events < MaxEarlyEvents
    /\ isDragging' = TRUE
    /\ lastOp' = "dragStart"
    /\ events' = events + 1
    /\ EarlyFrame /\ UNCHANGED <<mapX, mapY, shipRotation>>

(* handleDrag *)
DragEarly ==
    /\ variant = "early" /\ isDragging /\ events < MaxEarlyEvents
    /\ \E delta \in EarlyDeltas :
          /\ shipRotation' = dragAngle(delta)
          /\ mapX' = mapX + delta[1]
          /\ mapY' = mapY + delta[2]
    /\ lastOp' = "drag"
    /\ events' = events + 1
    /\ EarlyFrame /\ UNCHANGED <<isDragging>>

(* handleDragEnd: the ship turns back to 0 *)
DragEndEarly ==
    /\ variant = "early" /\ isDragging /\ events < MaxEarlyEvents
    /\ isDragging' = FALSE
    /\ shipRotation' = 0
    /\ lastOp' = "dragEnd"
    /\ events' = events + 1
    /\ EarlyFrame /\ UNCHANGED <<mapX, mapY>>

NextEarly == DragStartEarly \/ DragEarly \/ DragEndEarly

SpecEarly == InitEarly /\ [][NextEarly]_vars

----------------------------------------------------------------------------
(* Properties of the toroidal GalaxyMap *)

InWorld(val, size) == IsNum(val) /\ 0 <= val.v /\ val.v < size

\* C1: in the toroidal variant, after any sequence of mount-time load, drag
\* updates, momentum steps and resetShipPosition, the ship position satisfies
\* 0 <= x < 5000 and 0 <= y < 5000.
C1_ShipInsideWorld ==
    (Toroidal /\ mounted) =>
        InWorld(shipX, WORLD_CONFIG.width) /\ InWorld(shipY, WORLD_CONFIG.height)

Malformed(doc) == doc.kind # "object" \/ ~IsNum(doc.x) \/ ~IsNum(doc.y)

\* C3: for every stored value that is absent, not valid JSON, or JSON whose x
\* or y is missing or non-numeric, the position after the mount-time load is
\* the default, the world center.
C3_MalformedLoadsDefault ==
    (variant = "torus" /\ lastOp = "mount" /\ Malformed(storage)) => Position = Center

\* C5: in the toroidal variant, after any sequence of drag updates the viewer
\* position given to the render projection is the current ship position: the
\* primary screen position of every point is
\* screenCenter + wrappedDelta(ship, point) * scale.
C5_ProjectionFollowsShip ==
    (variant = "torus" /\ mounted /\ lastOp = "drag" /\ containerDimensions.width > 0
        /\ IsNum(shipX) /\ IsNum(shipY)) =>
        \A point \in GALAXY_POINTS :
            LET shown == RenderedPositions(point)[1]
                expected == worldToScreen([x |-> point.x, y |-> point.y],
                                          [x |-> shipX.v, y |-> shipY.v],
                                          screenCenter(containerDimensions),
                                          scale(containerDimensions))
            IN  shown.x = expected.x /\ shown.y = expected.y

\* C14: a point of interest is nearby exactly when its distance to the player
\* is at most the threshold: a point at distance 0 or at distance exactly the
\* threshold is nearby, a point farther away is not.
C14_NearbyIffWithinThreshold ==
    (variant = "torus" /\ mounted /\ lastOp = "proximity" /\ IsNum(shipX) /\ IsNum(shipY)) =>
        \A point \in GALAXY_POINTS :
            (nearbyPoint = point.id) <=>
                (TorusDistSq(Position, point) <= TorusThreshold * TorusThreshold)

(* the closest point whose distance is at most the threshold *)
ClosestWithinThreshold(pos) ==
    LET within == IF IsNum(pos.x) /\ IsNum(pos.y)
                  THEN {point \in GALAXY_POINTS :
                            TorusDistSq(pos, point) <= TorusThreshold * TorusThreshold}
                  ELSE {}
    IN  IF within = {} THEN "none"
        ELSE (CHOOSE point \in within :
                \A other \in within : TorusDistSq(pos, point) <= TorusDistSq(pos, other)).id

\* C15: once the position has stopped changing and the proximity check has
\* run, the nearby point is the closest point of interest within the
\* threshold of the current position, or none if there is no such point.
C15_NearbyFollowsPosition ==
    (Toroidal /\ mounted /\ lastOp = "proximity") =>
        nearbyPoint = ClosestWithinThreshold(Position)

(* a drag gesture has ended, its momentum and its save timer have finished  *)
(* and nothing else has happened since                                      *)
GestureSettled ==
    /\ Toroidal /\ mounted /\ ~isDragging
    /\ lastOp \in {"dragEnd", "momentum", "saveTimer"}
    /\ loops = <<>> /\ pendingSaves = 0

\* C16: after a drag gesture has ended and any momentum after the release has
\* finished, the value persisted in storage is the final position, whether
\* or not a periodic save fires around the same time.
C16_FinalPositionPersisted ==
    GestureSettled => storage = Saved(Position)

----------------------------------------------------------------------------
(* The bounded GalaxyMap (GalaxyMap.tsx, first component): the map position *)
(* is kept inside a circle around the origin.  Map coordinates are whole    *)
(* pixels; a coordinate computed through a sine, cosine or quotient is      *)
(* rounded toward the origin.                                               *)

Radius(dims) == calculateNavigationBounds(dims.width, dims.height).radius

BoundedPoints ==
    <<[id |-> "terra-nova", x |-> 40, y |-> 45],
      [id |-> "estacao-omega", x |-> 60, y |-> 35],
      [id |-> "nebulosa-crimson", x |-> 30, y |-> 65],
      [id |-> "campo-asteroides", x |-> 70, y |-> 55],
      [id |-> "mundo-gelado", x |-> 50, y |-> 25]>>

ProximityThreshold == 8

MaxMapEvents == 4

BoundedSizes == {0, 400, 800}

MapDeltas == {<<0, 0>>, <<250, 0>>, <<0, -7>>, <<-100, 100>>, <<300, 300>>, <<50, -150>>}

InitialPlayerStorage == {Absent, NotJson, JsonNull, Obj(Num(40), Num(45)), Obj(NaS, Undefined)}

InitialMapStorage == {Absent, NotJson, Obj(Num(100), Num(0)), Obj(Num(200), Num(150))}

NormSq(pos) == pos.x * pos.x + pos.y * pos.y

(* least r in lo .. hi with r * r >= n *)
RECURSIVE SqrtSearch(_, _, _)
SqrtSearch(n, lo, hi) ==
    IF lo >= hi THEN lo
    ELSE LET mid == (lo + hi) \div 2
         IN  IF mid * mid >= n THEN SqrtSearch(n, lo, mid) ELSE SqrtSearch(n, mid + 1, hi)

SqrtCeil(n) == SqrtSearch(n, 0, 4096)

(* (cos(atan2(y, x)) * radius, sin(atan2(y, x)) * radius) *)
ClampToCircle(pos, radius) ==
    IF pos.x = 0 /\ pos.y = 0 THEN [x |-> radius, y |-> 0]
    ELSE LET d == SqrtCeil(NormSq(pos))
         IN  [x |-> TruncDiv(pos.x * radius, d), y |-> TruncDiv(pos.y * radius, d)]

(* distanceSq squared distance of the player to a point, in percent units;  *)
(* a coordinate that is not a number makes the distance NaN                  *)
PointDistSq(pos, point) ==
    (pos.x.v - point.x) * (pos.x.v - point.x) + (pos.y.v - point.y) * (pos.y.v - point.y)

Candidates(pos) ==
    IF IsNum(pos.x) /\ IsNum(pos.y)
    THEN {i \in 1 .. Len(BoundedPoints) :
            PointDistSq(pos, BoundedPoints[i]) < ProximityThreshold * ProximityThreshold}
    ELSE {}

(* checkProximity: the first point, in list order, of least distance below  *)
(* the threshold                                                            *)
checkProximity(pos) ==
    IF Candidates(pos) = {} THEN "none"
    ELSE LET best == CHOOSE i \in Candidates(pos) :
                        \A j \in Candidates(pos) :
                            \/ PointDistSq(pos, BoundedPoints[i]) < PointDistSq(pos, BoundedPoints[j])
                            \/ (PointDistSq(pos, BoundedPoints[i]) = PointDistSq(pos, BoundedPoints[j])
                                    /\ i <= j)
         IN  BoundedPoints[best].id

(* validatePosition, subscribed to the change events of mapX and of mapY;   *)
(* a set that changes the value notifies it before the set returns          *)
RECURSIVE validatePosition(_, _)
validatePosition(pos, radius) ==
    IF NormSq(pos) > radius * radius
    THEN LET clamped == ClampToCircle(pos, radius)
             afterX == IF clamped.x = pos.x THEN pos
                       ELSE validatePosition([pos EXCEPT !.x = clamped.x], radius)
             afterY == IF clamped.y = afterX.y THEN afterX
                       ELSE validatePosition([afterX EXCEPT !.y = clamped.y], radius)
         IN  afterY
    ELSE pos

(* mapX.set(x); mapY.set(y)  with validatePosition subscribed or not *)
SetBoth(pos, x, y, radius, subscribed) ==
    LET afterX == IF x = pos.x THEN pos
                  ELSE IF subscribed THEN validatePosition([pos EXCEPT !.x = x], radius)
                  ELSE [pos EXCEPT !.x = x]
        afterY == IF y = afterX.y THEN afterX
                  ELSE IF subscribed THEN validatePosition([afterX EXCEPT !.y = y], radius)
                  ELSE [afterX EXCEPT !.y = y]
    IN  afterY

MapPos == [x |-> mapX, y |-> mapY]

(* the effect subscribes validatePosition unless the width is 0 *)
Subscribed(dims) == dims.width # 0

(* the load-saved-position effect, run whenever containerDimensions changes *)
LoadMapPosition(doc, dims, pos) ==
    IF dims.width > 0 /\ dims.height > 0 /\ doc.kind = "object"
          /\ IsNum(doc.x) /\ IsNum(doc.y)
          /\ doc.x.v * doc.x.v + doc.y.v * doc.y.v <= Radius(dims) * Radius(dims)
    THEN [x |-> doc.x.v, y |-> doc.y.v]
    ELSE pos

(* ... and what it leaves in storage: an entry that cannot be parsed or     *)
(* destructured is removed                                                  *)
LoadMapStorage(doc, dims) ==
    IF dims.width > 0 /\ dims.height > 0 /\ doc.kind \in {"invalid", "null"}
    THEN Absent ELSE doc

(* the position handleDrag computes before it sets mapX and mapY *)
DragTarget(pos, delta, radius) ==
    LET new == [x |-> pos.x + delta[1], y |-> pos.y + delta[2]]
    IN  IF NormSq(new) > radius * radius
        THEN IF NormSq(pos) >= (radius - 3) * (radius - 3)
             THEN LET n == delta[2] * pos.x - delta[1] * pos.y
                      slid == [x |-> pos.x + TruncDiv(-(pos.y * n), NormSq(pos)),
                               y |-> pos.y + TruncDiv(pos.x * n, NormSq(pos))]
                  IN  IF NormSq(slid) > radius * radius
                      THEN ClampToCircle(slid, radius) ELSE slid
             ELSE ClampToCircle(new, radius)
        ELSE new

MapSaved(pos) == Obj(Num(pos.x), Num(pos.y))

Bounded == variant = "bounded"

BoundedFrame == UNCHANGED <<variant, earlyVars, pureVars, offsetVars, torusOnly>>

InitBounded ==
    /\ variant = "bounded"
    /\ pureFn = "none" /\ pureArgs = <<>> /\ pureDone = FALSE
    /\ pureNum = 0 /\ purePositions = <<>>
    /\ mounted = FALSE
    /\ storage \in InitialMapStorage
    /\ shipX = Num(CenterX) /\ shipY = Num(CenterY)
    /\ shipPositionRef = Center /\ currentShipPosition = Center
    /\ isDragging = FALSE
    /\ containerDimensions = [width |-> 0, height |-> 0]
    /\ dragDims = [width |-> 0, height |-> 0]
    /\ velocity = [x |-> 0, y |-> 0]
    /\ loops = <<>> /\ pendingSaves = 0
    /\ lastOp = "none" /\ events = 0
    /\ OffsetIdle /\ ClickIdle /\ EarlyIdle
    /\ mapX = 0 /\ mapY = 0
    /\ playerStorage \in InitialPlayerStorage
    /\ shipPosition = [x |-> Num(50), y |-> Num(50)]
    /\ nearbyPoint = "none"
    /\ crashed = FALSE
    /\ anim = [left |-> 0, from |-> [x |-> 0, y |-> 0]]

(* mount: the shipPosition initializer parses the player entry without a    *)
(* try; then the effects measure the container, load the saved map position *)
(* and check the proximity                                                  *)
MountMap ==
    /\ Bounded /\ ~mounted /\ ~crashed /\ events < MaxMapEvents
    /\ IF playerStorage.kind \in {"invalid", "null"}
       THEN /\ crashed' = TRUE
            /\ UNCHANGED <<mounted, storage, containerDimensions, mapX, mapY, shipPosition, nearbyPoint>>
       ELSE /\ crashed' = FALSE
            /\ mounted' = TRUE
            /\ shipPosition' = IF playerStorage.kind = "absent"
                               THEN [x |-> Num(50), y |-> Num(50)]
                               ELSE [x |-> playerStorage.x, y |-> playerStorage.y]
            /\ nearbyPoint' = checkProximity(shipPosition')
            /\ \E w \in BoundedSizes, h \in BoundedSizes :
                  LET dims == [width |-> w, height |-> h]
                      loaded == LoadMapPosition(storage, dims, [x |-> 0, y |-> 0])
                  IN  /\ containerDimensions' = dims
                      /\ mapX' = loaded.x
                      /\ mapY' = loaded.y
                      /\ storage' = LoadMapStorage(storage, dims)
    /\ isDragging' = FALSE
    /\ anim' = [left |-> 0, from |-> [x |-> 0, y |-> 0]]
    /\ lastOp' = "mount"
    /\ events' = events + 1
    /\ BoundedFrame /\ UNCHANGED <<clickVars, playerStorage>>

(* unmount: the save effect's cleanup stores the position *)
UnmountMap ==
    /\ Bounded /\ mounted /\ events < MaxMapEvents
    /\ mounted' = FALSE
    /\ storage' = MapSaved(MapPos)
    /\ anim' = [left |-> 0, from |-> [x |-> 0, y |-> 0]]
    /\ lastOp' = "unmount"
    /\ events' = events + 1
    /\ BoundedFrame /\ UNCHANGED <<clickVars, isDragging, containerDimensions, mapX, mapY, playerStorage, shipPosition, nearbyPoint, crashed>>

(* ResizeObserver -> updateDimensions; the load effect runs again, then     *)
(* validatePosition is subscribed again with the new bounds                 *)
ResizeMap ==
    /\ Bounded /\ mounted /\ events < MaxMapEvents
    /\ \E w \in BoundedSizes, h \in BoundedSizes :
          LET dims == [width |-> w, height |-> h]
              loaded == LoadMapPosition(storage, dims, MapPos)
          IN  /\ dims # containerDimensions
              /\ containerDimensions' = dims
              /\ mapX' = loaded.x
              /\ mapY' = loaded.y
              /\ storage' = LoadMapStorage(storage, dims)
    /\ lastOp' = "resize"
    /\ events' = events + 1
    /\ BoundedFrame /\ UNCHANGED <<clickVars, mounted, isDragging, playerStorage, shipPosition, nearbyPoint, crashed, anim>>

(* handleDragStart; isDragging changes, so the save effect's cleanup stores *)
(* the position                                                             *)
DragStartMap ==
    /\ Bounded /\ mounted /\ ~isDragging /\ events < MaxMapEvents
    /\ isDragging' = TRUE
    /\ storage' = MapSaved(MapPos)
    /\ lastOp' = "dragStart"
    /\ events' = events + 1
    /\ BoundedFrame /\ UNCHANGED <<clickVars, mounted, containerDimensions, boundedVars>>

(* handleDrag *)
DragMap ==
    /\ Bounded /\ mounted /\ isDragging /\ events < MaxMapEvents
    /\ \E delta \in MapDeltas :
          IF containerDimensions.width = 0
          THEN UNCHANGED <<mapX, mapY>>
          ELSE LET radius == Radius(containerDimensions)
                   final == DragTarget(MapPos, delta, radius)
                   after == SetBoth(MapPos, final.x, final.y, radius, TRUE)
               IN  mapX' = after.x /\ mapY' = after.y
    /\ lastOp' = "drag"
    /\ events' = events + 1
    /\ BoundedFrame /\ UNCHANGED <<clickVars, mounted, storage, isDragging, containerDimensions, playerStorage, shipPosition, nearbyPoint, crashed, anim>>

(* handleDragEnd *)
DragEndMap ==
    /\ Bounded /\ mounted /\ isDragging /\ events < MaxMapEvents
    /\ isDragging' = FALSE
    /\ storage' = MapSaved(MapPos)
    /\ lastOp' = "dragEnd"
    /\ events' = events + 1
    /\ BoundedFrame /\ UNCHANGED <<clickVars, mounted, containerDimensions, boundedVars>>

(* the 2 s interval of the save effect *)
SaveTickMap ==
    /\ Bounded /\ mounted
    /\ storage' = IF ~isDragging THEN MapSaved(MapPos) ELSE storage
    /\ lastOp' = "saveTick"
    /\ BoundedFrame /\ UNCHANGED <<clickVars, mounted, isDragging, containerDimensions, boundedVars, events>>

(* resetShipPosition: starts the tweens of mapX and mapY to 0 *)
ResetMapPosition ==
    /\ Bounded /\ mounted /\ events < MaxMapEvents
    /\ anim' = [left |-> 2, from |-> MapPos]
    /\ storage' = Absent
    /\ lastOp' = "reset"
    /\ events' = events + 1
    /\ BoundedFrame /\ UNCHANGED <<clickVars, mounted, isDragging, containerDimensions, mapX, mapY, playerStorage, shipPosition, nearbyPoint, crashed>>

(* one frame of the tweens: half way, then the target *)
AnimationFrame ==
    /\ Bounded /\ mounted /\ anim.left > 0
    /\ LET tx == IF anim.left = 2 THEN TruncDiv(anim.from.x, 2) ELSE 0
           ty == IF anim.left = 2 THEN TruncDiv(anim.from.y, 2) ELSE 0
           after == SetBoth(MapPos, tx, ty, Radius(containerDimensions),
                            Subscribed(containerDimensions))
       IN  mapX' = after.x /\ mapY' = after.y
    /\ anim' = [anim EXCEPT !.left = anim.left - 1]
    /\ lastOp' = "animationFrame"
    /\ BoundedFrame /\ UNCHANGED <<clickVars, mounted, storage, isDragging, containerDimensions, playerStorage, shipPosition, nearbyPoint, crashed, events>>

(* GalaxyMap.handlePointClick: the ids onPointClick has been invoked with *)
galaxyHandlePointClick(pointId) ==
    IF \E i \in 1 .. Len(BoundedPoints) : BoundedPoints[i].id = pointId
    THEN Append(callbacks, pointId) ELSE callbacks

(* MapPoint: forwards a click to onClick when the point is nearby and no    *)
(* drag is in progress                                                      *)
MapPointClick ==
    /\ Bounded /\ mounted /\ events < MaxMapEvents
    /\ \E i \in 1 .. Len(BoundedPoints) :
          /\ clickTarget' = BoundedPoints[i].id
          /\ callbacks' = IF nearbyPoint = BoundedPoints[i].id /\ ~isDragging
                          THEN galaxyHandlePointClick(BoundedPoints[i].id)
                          ELSE callbacks
    /\ lastOp' = "click"
    /\ events' = events + 1
    /\ BoundedFrame /\ UNCHANGED <<mounted, storage, isDragging, containerDimensions, boundedVars>>

NextBounded ==
    \/ MountMap
    \/ UnmountMap
    \/ ResizeMap
    \/ DragStartMap
    \/ DragMap
    \/ DragEndMap
    \/ SaveTickMap
    \/ ResetMapPosition
    \/ AnimationFrame
    \/ MapPointClick

SpecBounded == InitBounded /\ [][NextBounded]_vars

(* the two screens whose points can be clicked *)
InitInteraction == InitOffset \/ InitBounded

NextInteraction == NextOffset \/ NextBounded

SpecInteraction == InitInteraction /\ [][NextInteraction]_vars

(* the two maps whose save effect runs a 2 s interval and a cleanup *)
InitSaving == InitWorldScreen \/ InitBounded

NextSaving == NextWorldScreen \/ NextBounded

SpecSaving == InitSaving /\ [][NextSaving]_vars

----------------------------------------------------------------------------
(* Properties of the bounded GalaxyMap and of the click handling *)

\* C2: in the bounded variant the distance of the map position from the origin
\* is at most the current navigation radius in every reachable state, also
\* after the container is resized so that the radius shrinks.
C2_InsideNavigationCircle ==
    (Bounded /\ mounted) =>
        NormSq(MapPos) <= Radius(containerDimensions) * Radius(containerDimensions)

(* the step is handleDrag called with this delta, and the position it      *)
(* attempts, current + delta, is outside the navigation circle              *)
DragBeyondRadius(delta) ==
    /\ Bounded /\ mounted /\ isDragging /\ containerDimensions.width # 0
    /\ lastOp' = "drag" /\ events' = events + 1
    /\ LET radius == Radius(containerDimensions)
           final == DragTarget(MapPos, delta, radius)
       IN  /\ NormSq([x |-> mapX + delta[1], y |-> mapY + delta[2]]) > radius * radius
           /\ [x |-> mapX', y |-> mapY'] = SetBoth(MapPos, final.x, final.y, radius, TRUE)

\* C17: in the bounded variant every drag update whose attempted position is
\* farther than R from the origin resolves to a position on the circle of
\* radius R: not farther than R and not inside it (the position is in whole
\* pixels and the edge band of handleDrag is 3 pixels wide, so "on the
\* circle" allows 5 pixels).
C17_ResolvedOnCircle ==
    [][\A delta \in MapDeltas :
          DragBeyondRadius(delta) =>
              /\ NormSq([x |-> mapX', y |-> mapY']) <= Radius(containerDimensions) * Radius(containerDimensions)
              /\ NormSq([x |-> mapX', y |-> mapY'])
                    >= (Radius(containerDimensions) - 5) * (Radius(containerDimensions) - 5)]_vars

\* C18: the persisted position is read from storage only at mount: once the
\* component is mounted and its container has been measured, no later event,
\* in particular a container resize, overwrites the in-memory map position
\* with a stored value.
C18_ResizeKeepsPosition ==
    [][(Bounded /\ mounted /\ containerDimensions.width > 0 /\ containerDimensions.height > 0
            /\ lastOp' = "resize" /\ events' = events + 1) =>
          (mapX' = mapX /\ mapY' = mapY)]_vars

ClickedOffsetPoint == CHOOSE point \in interactivePoints : point.id = clickTarget'

ClickedMapPoint == CHOOSE i \in 1 .. Len(BoundedPoints) : BoundedPoints[i].id = clickTarget'

OffsetClickAllowed ==
    /\ ~isDragging
    /\ calculateDistanceSq(ClickedOffsetPoint, mapPosition)
            <= INTERACTION_DISTANCE * INTERACTION_DISTANCE

MapClickAllowed ==
    /\ ~isDragging
    /\ IsNum(shipPosition.x) /\ IsNum(shipPosition.y)
    /\ PointDistSq(shipPosition, BoundedPoints[ClickedMapPoint])
            <= ProximityThreshold * ProximityThreshold

----------------------------------------------------------------------------
(* Properties of the drag-offset WorldScreen *)

OffsetInBounds ==
    /\ -1200 <= mapPosition.x /\ mapPosition.x <= 600
    /\ -1200 <= mapPosition.y /\ mapPosition.y <= 600

MoveWhileIdle == ~isDragging /\ lastOp' \in {"mouseMove", "touchMove"}

\* C29: in the drag-offset WorldScreen, after any sequence of mouse/touch
\* down, move, up, leave and centerMap events the map offset satisfies
\* -1200 <= x <= 600 and -1200 <= y <= 600, and a move event received while
\* no drag is active changes nothing.
C29_OffsetBoundedAndIdleMoveInert ==
    /\ [](variant = "offset" => OffsetInBounds)
    /\ [][(variant = "offset" /\ MoveWhileIdle) =>
              UNCHANGED <<mapPosition, isDragging, dragStart, selectedPoint>>]_vars

C29_Witness ==
    /\ variant = "offset" /\ lastOp = "mouseMove" /\ ~isDragging
    /\ mapPosition = [x |-> 600, y |-> -1200]

----------------------------------------------------------------------------
(* Properties of the drag handling of the bounded GalaxyMap *)

(* the step is handleDrag called with this delta in a measured container *)
DragBy(delta) ==
    /\ Bounded /\ mounted /\ isDragging /\ containerDimensions.width # 0
    /\ lastOp' = "drag" /\ events' = events + 1
    /\ LET radius == Radius(containerDimensions)
           final == DragTarget(MapPos, delta, radius)
       IN  [x |-> mapX', y |-> mapY'] = SetBoth(MapPos, final.x, final.y, radius, TRUE)

Attempted(delta) == [x |-> mapX + delta[1], y |-> mapY + delta[2]]

InsideCircle(pos) == NormSq(pos) <= Radius(containerDimensions) * Radius(containerDimensions)

\* C25: in the bounded variant a drag update whose target, current position +
\* delta, lies inside or on the circle leaves the position exactly at
\* current + delta, although validatePosition runs between the write of x and
\* the write of y.
C25_InsideTargetReached ==
    [][\A delta \in MapDeltas :
          (DragBy(delta) /\ InsideCircle(Attempted(delta))) =>
              [x |-> mapX', y |-> mapY'] = Attempted(delta)]_vars

(* current + (delta . tangent) * tangent, re-clamped; the tangent at the    *)
(* current angle is (-y, x) / |current|, and (0, 1) at the origin           *)
TangentialSlide(pos, delta, radius) ==
    LET n == delta[2] * pos.x - delta[1] * pos.y
        slid == IF pos.x = 0 /\ pos.y = 0
                THEN [x |-> 0, y |-> delta[2]]
                ELSE [x |-> pos.x + TruncDiv(-(pos.y * n), NormSq(pos)),
                      y |-> pos.y + TruncDiv(pos.x * n, NormSq(pos))]
    IN  IF NormSq(slid) > radius * radius THEN ClampToCircle(slid, radius) ELSE slid

\* C23: in the bounded variant, when a drag update's unclamped target would
\* exceed R, only the tangential component of the delta is applied and the
\* result is re-clamped: the resolved position is
\* clamp(current + (delta . tangent) * tangent), to the pixel (2 pixels are
\* allowed for rounding), so a purely radial outward delta leaves the
\* position unchanged.
C23_OnlyTangentialApplied ==
    [][\A delta \in MapDeltas :
          DragBeyondRadius(delta) =>
              LET expected == TangentialSlide(MapPos, delta, Radius(containerDimensions))
              IN  /\ Abs(mapX' - expected.x) <= 2
                  /\ Abs(mapY' - expected.y) <= 2]_vars

----------------------------------------------------------------------------
(* Properties of the ship's facing angle *)

(* the step is handleDrag of the first GalaxyMap called with this delta *)
EarlyDragBy(delta) ==
    /\ variant = "early" /\ lastOp' = "drag" /\ events' = events + 1
    /\ mapX' = mapX + delta[1] /\ mapY' = mapY + delta[2]

\* C24: a drag update whose delta magnitude is at or below the movement
\* threshold of 2 px, a zero-magnitude delta included, leaves the facing
\* angle at its previous value; a zero-magnitude delta also leaves the
\* position unchanged.
C24_SmallDeltaKeepsFacing ==
    [][\A delta \in EarlyDeltas :
          (EarlyDragBy(delta) /\ delta[1] * delta[1] + delta[2] * delta[2] <= 2 * 2) =>
              /\ shipRotation' = shipRotation
              /\ delta = <<0, 0>> => (mapX' = mapX /\ mapY' = mapY)]_vars

----------------------------------------------------------------------------
(* Properties of the momentum of part_002 *)

MomentumStep == variant = "momentum" /\ lastOp' = "momentum"

\* C26: in the momentum variant, once a new drag gesture has started, the
\* position is changed only by that gesture's drag updates: no momentum step
\* scheduled by the previous release modifies the position while the new
\* gesture is active.
C26_NoMomentumDuringDrag ==
    [][(MomentumStep /\ isDragging) => (shipX' = shipX /\ shipY' = shipY)]_vars

(* the frame stopped loop i: it is not rescheduled *)
LoopStopped(i) == loops' = RemoveAt(loops, i)

(* the frame rescheduled loop i: inside the 2 s cap, later and slower, and  *)
(* above the cutoff before it                                               *)
LoopRescheduled(i) ==
    /\ Len(loops') = Len(loops)
    /\ \A j \in 1 .. Len(loops) : j # i => loops'[j] = loops[j]
    /\ loops'[i].elapsed > loops[i].elapsed
    /\ loops'[i].elapsed < 2000
    /\ SpeedSq(loops[i].v) > 10 * 10
    /\ SpeedSq(loops'[i].v) < SpeedSq(loops[i].v)

\* C22: the momentum loop always terminates with no external cancellation:
\* every requestAnimationFrame callback either stops its loop or reschedules
\* it with more elapsed time, still under the 2 s cap, and a strictly smaller
\* speed that was above the cutoff, so no loop is rescheduled for ever; a
\* pending loop has never run for 2 s or more.
C22_MomentumTerminates ==
    /\ [](variant = "momentum" => \A i \in 1 .. Len(loops) : loops[i].elapsed < 2000)
    /\ [][MomentumStep => \E i \in 1 .. Len(loops) : LoopStopped(i) \/ LoopRescheduled(i)]_vars

C22_Witness ==
    /\ variant = "momentum" /\ lastOp = "momentum"
    /\ loops = <<>> /\ ~isDragging
    /\ shipX # Num(CenterX)

----------------------------------------------------------------------------
(* Properties of the map of WorldScreen.tsx *)

WorldScreenMap == variant = "torus"

AtCenter == shipX = Num(2500) /\ shipY = Num(2500)

CenterOrAbsent == storage = Absent \/ storage = Obj(Num(2500), Num(2500))

ResetStep == lastOp' = "reset" /\ events' = events + 1

DragUpdate == lastOp' = "drag" /\ events' = events + 1

\* C28: in the toroidal variant, after resetShipPosition the ship position is
\* the world center (2500, 2500) and the storage entry is absent, and from a
\* state with the ship at the center and the entry absent or holding the
\* center every step other than a drag update leads to such a state again: no
\* later periodic save, gesture start or end, unmount or mount restores the
\* position from before the reset.
C28_ResetHolds ==
    /\ [][(WorldScreenMap /\ ResetStep) => (AtCenter' /\ storage' = Absent)]_vars
    /\ [][(WorldScreenMap /\ AtCenter /\ CenterOrAbsent /\ ~DragUpdate) =>
              (AtCenter' /\ CenterOrAbsent')]_vars

(* resetShipPosition during a gesture that had brought the ship next to     *)
(* estacao-omega                                                            *)
C28_Witness ==
    /\ WorldScreenMap /\ lastOp = "reset"
    /\ nearbyPoint = "estacao-omega"
    /\ AtCenter /\ storage = Absent

----------------------------------------------------------------------------
(* Properties of the save effect of WorldScreen.tsx and of GalaxyMap.tsx *)

SavingMap == variant \in {"torus", "bounded"}

(* the step stores a position: the entry changes and is an object after it *)
Written == storage' # storage /\ storage'.kind = "object"

(* what a write of the position current after the step stores *)
CurrentStored ==
    IF variant = "torus" THEN storage' = Obj(shipX', shipY')
    ELSE storage' = Obj(Num(mapX'), Num(mapY'))

PeriodicWhileDragging == lastOp' = "saveTick" /\ isDragging

PeriodicIdle == lastOp' = "saveTick" /\ ~isDragging

----------------------------------------------------------------------------
(* Properties of the geometry in a container that has no size *)

ZeroSized == containerDimensions.width = 0 \/ containerDimensions.height = 0

ShipValid == InWorld(shipX, WORLD_CONFIG.width) /\ InWorld(shipY, WORLD_CONFIG.height)

\* C21: with container width or height equal to 0 the geometry falls back to
\* a safe default instead of dividing by zero: calculateNavigationBounds
\* returns the minimum radius 140 with the boundary hidden, the scale of an
\* unmeasured container (width 0) is 1, and a drag update received with a
\* zero side never divides by a zero scale (with scale 0 the handler returns
\* and the position stays) and leaves a valid position finite and valid.
C21_ZeroSizeSafe ==
    /\ [](variant = "bounded" /\ mounted /\ ZeroSized =>
              LET bounds == calculateNavigationBounds(containerDimensions.width,
                                                      containerDimensions.height)
              IN  bounds.radius = 140 /\ ~bounds.boundaryShown)
    /\ [](variant = "torus" /\ containerDimensions.width = 0 =>
              scale(containerDimensions) = SubPx)
    /\ [][(variant = "torus" /\ ZeroSized /\ DragUpdate) =>
              /\ scale(containerDimensions) = 0 => (shipX' = shipX /\ shipY' = shipY)
              /\ ShipValid => ShipValid']_vars

(* a drag update by (-300, 400) px in an unmeasured container, at scale 1 *)
C21_Witness ==
    /\ variant = "torus" /\ mounted /\ lastOp = "drag"
    /\ containerDimensions.width = 0
    /\ shipX = Num(2800) /\ shipY = Num(2100)

====
